---- MODULE Spec2Model ----
(***************************************************************************)
(* Hotel service of flipt-io/demo-v2 (src/hotel-service): the in-memory    *)
(* booking store behind the FastAPI handlers book_hotel, get_bookings,     *)
(* get_booking and update_booking, with the feature-flag adapter and the   *)
(* pricing / stay-length helpers the handlers call.                        *)
(*                                                                         *)
(* Conventions.                                                            *)
(*  - Python's None is the string None below; no input string equals it.   *)
(*  - Money is an integer number of 1/10000 dollar (299.99 is 2999900), so *)
(*    that total * 0.12 and total * variation are exact.                   *)
(*  - datetime.utcnow() reads the variable now; the clock never goes back  *)
(*    and may or may not have advanced between two reads.                  *)
(*  - uuid.uuid4() and random.uniform() are inputs of the handlers.        *)
(*                                                                         *)
(* Specifications.                                                         *)
(*  - Spec: the service, one request handled at a time.                    *)
(*  - SpecEventLoop: requests in flight together on the one event loop,    *)
(*    the handlers run statement by statement.                             *)
(*  - SpecPricing: bookings created under every price strategy.            *)
(*  - SpecHelpers: the flag adapter and the data.py helpers on their own.  *)
(***************************************************************************)
EXTENDS Integers, Sequences, FiniteSets, TLC

\* ---------------------------------------------------------------- bounds
\* Largest value the clock reaches.
MaxClock == 1
\* Number of bookings created (successful book_hotel calls) in one run.
MaxCreates == 2
\* Number of requests in flight at once on the event loop.
NumTasks == 3
\* Largest day number of the date strings calculate_nights is called on.
MaxDay == 2
\* Largest night count calculate_price_with_strategy is called on.
MaxNights == 2

None == "<None>"

Max(a, b) == IF a >= b THEN a ELSE b

\* Python truthiness of an Optional[str]: None and "" are falsy.
Truthy(s) == s # None /\ s # ""

\* round(x, 2) on an amount in 1/10000 dollar: nearest cent, ties to even.
round2(x) ==
    LET q == x \div 100
        r == x % 100
    IN  IF r > 50 \/ (r = 50 /\ q % 2 = 1) THEN (q + 1) * 100 ELSE q * 100

\* ------------------------------------------------------------ data.py
\* The catalogue: id -> base_price_per_night (1/10000 dollar), rooms,
\* rating (in tenths) and category.
HOTELS ==
    [h \in {"hotel-1", "hotel-2", "hotel-3", "hotel-4",
            "hotel-5", "hotel-6", "hotel-7", "hotel-8"} |->
        CASE h = "hotel-1" -> [id |-> h, base_price_per_night |-> 2999900,
                               rating |-> 48, available_rooms |-> 15, category |-> "luxury"]
          [] h = "hotel-2" -> [id |-> h, base_price_per_night |-> 1899900,
                               rating |-> 46, available_rooms |-> 8, category |-> "premium"]
          [] h = "hotel-3" -> [id |-> h, base_price_per_night |-> 2499900,
                               rating |-> 44, available_rooms |-> 22, category |-> "standard"]
          [] h = "hotel-4" -> [id |-> h, base_price_per_night |-> 799900,
                               rating |-> 40, available_rooms |-> 30, category |-> "economy"]
          [] h = "hotel-5" -> [id |-> h, base_price_per_night |-> 1699900,
                               rating |-> 45, available_rooms |-> 12, category |-> "standard"]
          [] h = "hotel-6" -> [id |-> h, base_price_per_night |-> 3499900,
                               rating |-> 49, available_rooms |-> 18, category |-> "luxury"]
          [] h = "hotel-7" -> [id |-> h, base_price_per_night |-> 1599900,
                               rating |-> 43, available_rooms |-> 25, category |-> "standard"]
          [] h = "hotel-8" -> [id |-> h, base_price_per_night |-> 2199900,
                               rating |-> 47, available_rooms |-> 10, category |-> "premium"]]

\* get_hotel_by_id: the hotel, or a record with id None when there is none.
NoHotel == [id |-> None]
get_hotel_by_id(hotel_id) ==
    IF hotel_id \in DOMAIN HOTELS THEN HOTELS[hotel_id] ELSE NoHotel

\* A date string is modelled by its parts: iso (FALSE: fromisoformat rejects
\* it), the day number and hour it denotes, and its zone suffix: "" (naive),
\* "Z" or "+00:00".
DateString(iso, day, hour, tz) == [iso |-> iso, day |-> day, hour |-> hour, tz |-> tz]

\* s.replace('Z', '+00:00')
replace_Z(s) == IF s.tz = "Z" THEN [s EXCEPT !.tz = "+00:00"] ELSE s

\* datetime.fromisoformat: raises on a non-ISO string (and on a bare "Z");
\* otherwise the instant in hours, aware iff a UTC offset is present.
fromisoformat(s) ==
    IF ~s.iso \/ s.tz = "Z"
    THEN [raises |-> TRUE, aware |-> FALSE, t |-> 0]
    ELSE [raises |-> FALSE, aware |-> (s.tz # ""), t |-> s.day * 24 + s.hour]

\* Mutant of calculate_nights: the difference is returned without max(1, .).
calculate_nights_unclamped(checkin, checkout) ==
    LET checkin_date  == fromisoformat(replace_Z(checkin))
        checkout_date == fromisoformat(replace_Z(checkout))
    IN  IF checkin_date.raises \/ checkout_date.raises THEN 1
        ELSE IF checkin_date.aware # checkout_date.aware THEN 1
        ELSE (checkout_date.t - checkin_date.t) \div 24

\* calculate_nights: timedelta.days is the floor of the difference in days;
\* subtracting a naive from an aware datetime raises TypeError; the bare
\* except turns every exception into 1.
calculate_nights(checkin, checkout) ==
    LET checkin_date  == fromisoformat(replace_Z(checkin))
        checkout_date == fromisoformat(replace_Z(checkout))
    IN  IF checkin_date.raises \/ checkout_date.raises THEN 1
        ELSE IF checkin_date.aware # checkout_date.aware THEN 1
        ELSE Max(1, (checkout_date.t - checkin_date.t) \div 24)

\* The breakdown dict is a function from its keys to amounts; NoBreakdown is
\* Python's None (falsy).
NoBreakdown == <<>>

\* Mutant of calculate_price_with_strategy: an unrecognised strategy is
\* priced per night.
calculate_price_with_strategy_default_per_night(base_price, nights, strategy, variation) ==
    LET total == base_price * nights
    IN  IF strategy = "total" THEN
            [display_price |-> total, label |-> "Total Price", breakdown |-> NoBreakdown]
        ELSE IF strategy = "per-night" THEN
            [display_price |-> base_price, label |-> "Per Night",
             breakdown |-> [k \in {"per_night", "nights", "total"} |->
                              CASE k = "per_night" -> base_price
                                [] k = "nights" -> nights
                                [] k = "total" -> total]]
        ELSE IF strategy = "with-fees" THEN
            LET taxes == (total * 12) \div 100
                fees == 250000
                grand_total == total + taxes + fees
            IN  [display_price |-> grand_total, label |-> "Total with Fees",
                 breakdown |-> [k \in {"base", "taxes", "fees", "total"} |->
                                  CASE k = "base" -> total
                                    [] k = "taxes" -> round2(taxes)
                                    [] k = "fees" -> fees
                                    [] k = "total" -> round2(grand_total)]]
        ELSE IF strategy = "dynamic" THEN
            LET dynamic_price == (total * variation) \div 100
                savings == IF dynamic_price < total THEN total - dynamic_price ELSE 0
            IN  [display_price |-> round2(dynamic_price), label |-> "Dynamic Price",
                 breakdown |-> [k \in {"original", "current", "savings"} |->
                                  CASE k = "original" -> total
                                    [] k = "current" -> round2(dynamic_price)
                                    [] k = "savings" ->
                                         IF savings > 0 THEN round2(savings) ELSE 0]]
        ELSE
            [display_price |-> base_price, label |-> "Per Night", breakdown |-> NoBreakdown]

\* calculate_price_with_strategy; variation is random.uniform(0.9, 1.15) in
\* percent.
calculate_price_with_strategy(base_price, nights, strategy, variation) ==
    LET total == base_price * nights
    IN  IF strategy = "total" THEN
            [display_price |-> total, label |-> "Total Price", breakdown |-> NoBreakdown]
        ELSE IF strategy = "per-night" THEN
            [display_price |-> base_price, label |-> "Per Night",
             breakdown |-> [k \in {"per_night", "nights", "total"} |->
                              CASE k = "per_night" -> base_price
                                [] k = "nights" -> nights
                                [] k = "total" -> total]]
        ELSE IF strategy = "with-fees" THEN
            LET taxes == (total * 12) \div 100
                fees == 250000
                grand_total == total + taxes + fees
            IN  [display_price |-> grand_total, label |-> "Total with Fees",
                 breakdown |-> [k \in {"base", "taxes", "fees", "total"} |->
                                  CASE k = "base" -> total
                                    [] k = "taxes" -> round2(taxes)
                                    [] k = "fees" -> fees
                                    [] k = "total" -> round2(grand_total)]]
        ELSE IF strategy = "dynamic" THEN
            LET dynamic_price == (total * variation) \div 100
                savings == IF dynamic_price < total THEN total - dynamic_price ELSE 0
            IN  [display_price |-> round2(dynamic_price), label |-> "Dynamic Price",
                 breakdown |-> [k \in {"original", "current", "savings"} |->
                                  CASE k = "original" -> total
                                    [] k = "current" -> round2(dynamic_price)
                                    [] k = "savings" ->
                                         IF savings > 0 THEN round2(savings) ELSE 0]]
        ELSE
            [display_price |-> total, label |-> "Total Price", breakdown |-> NoBreakdown]

\* generate_booking_id / generate_confirmation_number: the prefix and the
\* leading hex digits of a fresh uuid4 (hex8, hex6: those digits).
generate_booking_id(hex8) == "BK-" \o hex8
generate_confirmation_number(hex6) == "CONF-" \o hex6

\* ------------------------------------------------------- inputs (samples)
\* What the flag backend answers to one evaluation call: it raises (network
\* error, timeout, unknown flag) or returns a result.
BooleanResults ==
    {[raises |-> r, enabled |-> e] : r \in BOOLEAN, e \in BOOLEAN} \
        {[raises |-> TRUE, enabled |-> TRUE]}
VariantResults ==
    {[raises |-> FALSE, variant_key |-> k] :
        k \in {"", "total", "per-night", "with-fees", "dynamic", "bogus"}}
        \cup {[raises |-> TRUE, variant_key |-> ""]}
\* random.uniform(0.9, 1.15), in percent: both ends and values between.
Variations == {90, 100, 115}

\* Identifiers a uuid4 draw can produce (hex digits), and the identifiers
\* requests name: those, whether issued or not.
Hex8 == {"0000000A", "0000000B"}
Hex6 == {"00000C"}
BookingIds == {generate_booking_id(h) : h \in Hex8}
ConfirmationNumbers == {generate_confirmation_number(h) : h \in Hex6}

\* Hotel ids in the request path: two of the catalogue and one unknown.
PathHotelIds == {"hotel-1", "hotel-9"}
\* Request bodies (BookingRequest).
BookingRequests ==
    {[hotel_id |-> h, checkin |-> DateString(TRUE, 1, 0, "Z"),
      checkout |-> DateString(TRUE, 3, 0, "Z"), guests |-> 2,
      guest_name |-> "Ann", guest_email |-> "ann@example.com"] :
        h \in {"hotel-1", "hotel-4"}}
\* Request bodies of PATCH (BookingUpdateRequest): both fields optional.
UpdateStatuses == {None, "", "pending", "confirmed", "rejected", "bogus"}
BookingUpdateRequests ==
    {[status |-> s, confirmation_number |-> c] :
        s \in UpdateStatuses, c \in {None} \cup ConfirmationNumbers}
\* ?status= of GET /api/bookings (None: the parameter is absent).
StatusFilters == {None, "", "pending", "confirmed", "rejected", "bogus"}

\* ----------------------------------------------------------------- state
VARIABLES
    bookings_storage,   \* main.py:91: booking_id -> booking dict
    client,             \* flipt_service.client: the flag client or None
    now,                \* the clock datetime.utcnow() reads
    creates,            \* number of bookings created so far
    request,            \* the request handled last, with the backend's answers
    response,           \* its response: handler, status code, body
    tasks,              \* the event loop's handler coroutines, by request
    running             \* the coroutines the event loop is inside: at most one

vars == <<bookings_storage, client, now, creates, request, response,
          tasks, running>>
\* The event loop's state; the handlers' own statements never touch it.
loop == <<tasks, running>>

Clock == 0..MaxClock

\* ------------------------------------------------------- flipt_service.py
\* Mutant of evaluate_boolean: a failed call yields False, not the default.
evaluate_boolean_false_on_error(flag_key, result, default) ==
    IF client = None THEN default
    ELSE IF result.raises THEN FALSE
    ELSE result.enabled

\* evaluate_boolean: the default without a client or when the call raises.
evaluate_boolean(flag_key, result, default) ==
    IF client = None THEN default
    ELSE IF result.raises THEN default
    ELSE result.enabled

\* evaluate_variant: the default also for an empty variant key.
evaluate_variant(flag_key, result, default) ==
    IF client = None THEN default
    ELSE IF result.raises THEN default
    ELSE IF Len(result.variant_key) > 0 THEN result.variant_key
    ELSE default

get_price_display_strategy(result) ==
    LET strategy == evaluate_variant("price-display-strategy", result, "per-night")
    IN  IF Truthy(strategy) THEN strategy ELSE "per-night"

is_real_time_availability_enabled(result) ==
    evaluate_boolean("real-time-availability", result, TRUE)

is_loyalty_program_enabled(result) ==
    evaluate_boolean("loyalty-program", result, FALSE)

\* Mutant of is_instant_booking_enabled: the default is True.
is_instant_booking_enabled_default_true(result) ==
    evaluate_boolean("instant-booking", result, TRUE)

is_instant_booking_enabled(result) ==
    evaluate_boolean("instant-booking", result, FALSE)

\* ------------------------------------------------------------- main.py
\* datetime.isoformat(): the string form of a timestamp.
isoformat(t) == [isoformat |-> t]

\* booking.copy() with created_at and updated_at converted to ISO strings.
booking_copy(booking) ==
    [booking EXCEPT !.created_at = isoformat(booking.created_at),
                    !.updated_at = isoformat(booking.updated_at)]

HTTPException(op, status_code, detail) ==
    [op |-> op, status_code |-> status_code, body |-> [detail |-> detail]]

OK(op, body) == [op |-> op, status_code |-> 200, body |-> body]

\* No request is being served: the service waits for the next one.
NoRequest == [op |-> "none"]
NoResponse == [op |-> "none", status_code |-> 0, body |-> <<>>]
Waiting == request = NoRequest

Init ==
    /\ bookings_storage = <<>>
    /\ client \in {"FliptClient", None}
    /\ now = 0
    /\ creates = 0
    /\ request = NoRequest
    /\ response = NoResponse
    /\ tasks = <<>>
    /\ running = {}

\* Time passes between requests.
Tick ==
    /\ Waiting
    /\ now < MaxClock
    /\ now' = now + 1
    /\ UNCHANGED <<bookings_storage, client, creates, request, response, loop>>

\* bookings_storage[booking_id] = booking_data
store_booking(storage, booking_id, booking_data) ==
    [id \in DOMAIN storage \cup {booking_id} |->
        IF id = booking_id THEN booking_data ELSE storage[id]]

\* What the world outside the handler supplies while book_hotel runs: the
\* backend's answers to the two flag evaluations, the random draw of the
\* dynamic strategy (percent), the uuid4 draws, and the clock's readings at
\* the second and third datetime.utcnow() (t2, t3).
NoAnswers == <<>>

\* Mutant of booking_data: the total price is the display price.
booking_data_display_price(hotel_id, booking, env, t1) ==
    LET hotel == get_hotel_by_id(hotel_id)
        instant_booking == is_instant_booking_enabled(env.instant)
        price_strategy == get_price_display_strategy(env.variant)
        nights == calculate_nights(booking.checkin, booking.checkout)
        price_info == calculate_price_with_strategy(
                          hotel.base_price_per_night, nights, price_strategy,
                          env.variation)
        total_price == price_info.display_price
    IN  [booking_id |-> generate_booking_id(env.hex8),
         hotel_id |-> hotel_id,
         status |-> IF instant_booking THEN "confirmed" ELSE "pending",
         confirmation_number |->
             IF instant_booking THEN generate_confirmation_number(env.hex6) ELSE None,
         total_price |-> total_price,
         guest_name |-> booking.guest_name,
         guest_email |-> booking.guest_email,
         checkin |-> booking.checkin,
         checkout |-> booking.checkout,
         guests |-> booking.guests,
         created_at |-> t1,
         updated_at |-> env.t2]

\* The dict book_hotel builds (main.py:289-348); t1 is the clock's reading
\* for created_at.
booking_data(hotel_id, booking, env, t1) ==
    LET hotel == get_hotel_by_id(hotel_id)
        instant_booking == is_instant_booking_enabled(env.instant)
        price_strategy == get_price_display_strategy(env.variant)
        nights == calculate_nights(booking.checkin, booking.checkout)
        price_info == calculate_price_with_strategy(
                          hotel.base_price_per_night, nights, price_strategy,
                          env.variation)
        total_price == IF price_info.breakdown # NoBreakdown
                          /\ "total" \in DOMAIN price_info.breakdown
                       THEN price_info.breakdown["total"]
                       ELSE price_info.display_price
    IN  [booking_id |-> generate_booking_id(env.hex8),
         hotel_id |-> hotel_id,
         status |-> IF instant_booking THEN "confirmed" ELSE "pending",
         confirmation_number |->
             IF instant_booking THEN generate_confirmation_number(env.hex6) ELSE None,
         total_price |-> total_price,
         guest_name |-> booking.guest_name,
         guest_email |-> booking.guest_email,
         checkin |-> booking.checkin,
         checkout |-> booking.checkout,
         guests |-> booking.guests,
         created_at |-> t1,
         updated_at |-> env.t2]

\* The BookingResponse of book_hotel for the dict it stored; created_at is
\* the clock's third reading.
BookingResponse(data, t3) ==
    [booking_id |-> data.booking_id,
     hotel_id |-> data.hotel_id,
     status |-> data.status,
     confirmation_number |-> data.confirmation_number,
     total_price |-> data.total_price,
     created_at |-> isoformat(t3)]

\* Mutant of book_hotel_rejects: the mismatch is tested before the lookup.
book_hotel_rejects_mismatch_first(hotel_id, booking) ==
    IF booking.hotel_id # hotel_id THEN 400
    ELSE IF get_hotel_by_id(hotel_id) = NoHotel THEN 404
    ELSE 0

\* The validation of book_hotel: the status code it raises, 0 for none.
book_hotel_rejects(hotel_id, booking) ==
    IF get_hotel_by_id(hotel_id) = NoHotel THEN 404
    ELSE IF booking.hotel_id # hotel_id THEN 400
    ELSE 0

\* book_hotel on the store storage: the store it leaves and its response.
book_hotel_result(storage, hotel_id, booking, env, t1) ==
    IF book_hotel_rejects(hotel_id, booking) = 404 THEN
        [storage |-> storage,
         response |-> HTTPException("book_hotel", 404, "Hotel not found")]
    ELSE IF book_hotel_rejects(hotel_id, booking) = 400 THEN
        [storage |-> storage,
         response |-> HTTPException("book_hotel", 400, "Hotel ID mismatch")]
    ELSE
        LET data == booking_data(hotel_id, booking, env, t1)
        IN  [storage |-> store_booking(storage, data.booking_id, data),
             response |-> OK("book_hotel", BookingResponse(data, env.t3))]

\* POST /api/hotels/{hotel_id}/book with body booking.
book_hotel(hotel_id, booking, env) ==
    LET r == book_hotel_result(bookings_storage, hotel_id, booking, env, now)
    IN  IF r.response.status_code # 200 THEN
            /\ request' = [op |-> "book_hotel", hotel_id |-> hotel_id,
                           booking |-> booking, answers |-> NoAnswers]
            /\ response' = r.response
            /\ UNCHANGED <<bookings_storage, client, now, creates, loop>>
        ELSE
            /\ creates < MaxCreates
            /\ now <= env.t2 /\ env.t2 <= env.t3
            /\ request' = [op |-> "book_hotel", hotel_id |-> hotel_id,
                           booking |-> booking,
                           answers |-> [instant |-> env.instant,
                                        variant |-> env.variant]]
            /\ bookings_storage' = r.storage
            /\ now' = env.t3
            /\ creates' = creates + 1
            /\ response' = r.response
            /\ UNCHANGED <<client, loop>>

\* Mutant of filtered_bookings: the filter is never applied.
filtered_bookings_unfiltered(storage, status) ==
    {storage[id] : id \in DOMAIN storage}

\* The bookings get_bookings selects: all of them when status is falsy.
filtered_bookings(storage, status) ==
    IF Truthy(status)
    THEN {b \in {storage[id] : id \in DOMAIN storage} : b.status = status}
    ELSE {storage[id] : id \in DOMAIN storage}

\* The response of get_bookings for the bookings it selected. The list is
\* modelled as the set of its elements (no two bookings of the store are
\* equal: their ids differ).
bookings_response(filtered, status) ==
    LET serializable_bookings == {booking_copy(b) : b \in filtered}
    IN  OK("get_bookings",
           [bookings |-> serializable_bookings,
            total |-> Cardinality(serializable_bookings),
            status |-> IF Truthy(status) THEN status ELSE "all"])

\* GET /api/bookings?status=
get_bookings(status) ==
    /\ request' = [op |-> "get_bookings", status |-> status]
    /\ response' = bookings_response(filtered_bookings(bookings_storage, status),
                                     status)
    /\ UNCHANGED <<bookings_storage, client, now, creates, loop>>

\* Mutant of get_booking_response: the membership test is inverted.
get_booking_response_inverted(storage, booking_id) ==
    IF booking_id \in DOMAIN storage
    THEN HTTPException("get_booking", 404, "Booking not found")
    ELSE OK("get_booking", <<>>)

\* The response of get_booking on the store storage.
get_booking_response(storage, booking_id) ==
    IF booking_id \notin DOMAIN storage
    THEN HTTPException("get_booking", 404, "Booking not found")
    ELSE OK("get_booking", booking_copy(storage[booking_id]))

\* GET /api/bookings/{booking_id}
get_booking(booking_id) ==
    /\ request' = [op |-> "get_booking", booking_id |-> booking_id]
    /\ response' = get_booking_response(bookings_storage, booking_id)
    /\ UNCHANGED <<bookings_storage, client, now, creates, loop>>

\* main.py:455
valid_statuses == {"pending", "confirmed", "rejected"}

\* Mutant of update_fields: the confirmation number is applied before the
\* status is validated.
update_fields_confirmation_first(booking, update_request, t) ==
    LET has_status == update_request.status # None
        has_confirmation == update_request.confirmation_number # None
        b1 == IF has_confirmation
              THEN [booking EXCEPT !.confirmation_number =
                                       update_request.confirmation_number]
              ELSE booking
    IN  IF has_status /\ update_request.status \notin valid_statuses
        THEN [raised |-> TRUE, updated |-> FALSE, booking |-> b1]
        ELSE LET b2 == IF has_status
                       THEN [b1 EXCEPT !.status = update_request.status]
                       ELSE b1
                 updated == has_status \/ has_confirmation
                 b3 == IF updated THEN [b2 EXCEPT !.updated_at = t] ELSE b2
             IN  [raised |-> FALSE, updated |-> updated, booking |-> b3]

\* Mutant of update_fields: a new status other than confirmed drops the
\* confirmation number.
update_fields_resets_confirmation(booking, update_request, t) ==
    LET has_status == update_request.status # None
        has_confirmation == update_request.confirmation_number # None
    IN  IF has_status /\ update_request.status \notin valid_statuses
        THEN [raised |-> TRUE, updated |-> FALSE, booking |-> booking]
        ELSE LET b1 == IF has_status
                       THEN [booking EXCEPT
                                !.status = update_request.status,
                                !.confirmation_number =
                                    IF update_request.status = "confirmed"
                                    THEN @ ELSE None]
                       ELSE booking
                 b2 == IF has_confirmation
                       THEN [b1 EXCEPT !.confirmation_number =
                                           update_request.confirmation_number]
                       ELSE b1
                 updated == has_status \/ has_confirmation
                 b3 == IF updated THEN [b2 EXCEPT !.updated_at = t] ELSE b2
             IN  [raised |-> FALSE, updated |-> updated, booking |-> b3]

\* Mutant of update_fields: updated_at is refreshed only with a new status.
update_fields_no_touch(booking, update_request, t) ==
    LET has_status == update_request.status # None
        has_confirmation == update_request.confirmation_number # None
    IN  IF has_status /\ update_request.status \notin valid_statuses
        THEN [raised |-> TRUE, updated |-> FALSE, booking |-> booking]
        ELSE LET b1 == IF has_status
                       THEN [booking EXCEPT !.status = update_request.status,
                                            !.updated_at = t]
                       ELSE booking
                 b2 == IF has_confirmation
                       THEN [b1 EXCEPT !.confirmation_number =
                                           update_request.confirmation_number]
                       ELSE b1
             IN  [raised |-> FALSE, updated |-> has_status \/ has_confirmation,
                  booking |-> b2]

\* Mutant of update_fields: updated_at is refreshed on every update.
update_fields_always_touch(booking, update_request, t) ==
    LET has_status == update_request.status # None
        has_confirmation == update_request.confirmation_number # None
    IN  IF has_status /\ update_request.status \notin valid_statuses
        THEN [raised |-> TRUE, updated |-> FALSE, booking |-> booking]
        ELSE LET b1 == IF has_status
                       THEN [booking EXCEPT !.status = update_request.status]
                       ELSE booking
                 b2 == IF has_confirmation
                       THEN [b1 EXCEPT !.confirmation_number =
                                           update_request.confirmation_number]
                       ELSE b1
             IN  [raised |-> FALSE, updated |-> TRUE,
                  booking |-> [b2 EXCEPT !.updated_at = t]]

\* Mutant of update_fields: a rejected booking keeps its status (a guard on
\* the transition).
update_fields_rejected_is_final(booking, update_request, t) ==
    LET has_status == update_request.status # None
        has_confirmation == update_request.confirmation_number # None
    IN  IF has_status /\ (\/ update_request.status \notin valid_statuses
                          \/ booking.status = "rejected")
        THEN [raised |-> TRUE, updated |-> FALSE, booking |-> booking]
        ELSE LET b1 == IF has_status
                       THEN [booking EXCEPT !.status = update_request.status]
                       ELSE booking
                 b2 == IF has_confirmation
                       THEN [b1 EXCEPT !.confirmation_number =
                                           update_request.confirmation_number]
                       ELSE b1
                 updated == has_status \/ has_confirmation
                 b3 == IF updated THEN [b2 EXCEPT !.updated_at = t] ELSE b2
             IN  [raised |-> FALSE, updated |-> updated, booking |-> b3]

\* Mutant of update_fields: the status is stored without validation.
update_fields_unvalidated(booking, update_request, t) ==
    LET has_status == update_request.status # None
        has_confirmation == update_request.confirmation_number # None
        b1 == IF has_status
              THEN [booking EXCEPT !.status = update_request.status]
              ELSE booking
        b2 == IF has_confirmation
              THEN [b1 EXCEPT !.confirmation_number =
                                  update_request.confirmation_number]
              ELSE b1
        updated == has_status \/ has_confirmation
        b3 == IF updated THEN [b2 EXCEPT !.updated_at = t] ELSE b2
    IN  [raised |-> FALSE, updated |-> updated, booking |-> b3]

\* The body of update_booking once the booking is found. The dict is
\* mutated in place, so what it holds when the handler raises stays in the
\* store: the result carries the dict as the handler leaves it.
update_fields(booking, update_request, t) ==
    LET has_status == update_request.status # None
        has_confirmation == update_request.confirmation_number # None
    IN  IF has_status /\ update_request.status \notin valid_statuses
        THEN [raised |-> TRUE, updated |-> FALSE, booking |-> booking]
        ELSE LET b1 == IF has_status
                       THEN [booking EXCEPT !.status = update_request.status]
                       ELSE booking
                 b2 == IF has_confirmation
                       THEN [b1 EXCEPT !.confirmation_number =
                                           update_request.confirmation_number]
                       ELSE b1
                 updated == has_status \/ has_confirmation
                 b3 == IF updated THEN [b2 EXCEPT !.updated_at = t] ELSE b2
             IN  [raised |-> FALSE, updated |-> updated, booking |-> b3]

InvalidStatus == HTTPException("update_booking", 400, "Invalid status")

\* update_booking on the store storage at clock reading t: the store it
\* leaves and its response.
update_booking_result(storage, booking_id, update_request, t) ==
    IF booking_id \notin DOMAIN storage THEN
        [storage |-> storage,
         response |-> HTTPException("update_booking", 404, "Booking not found")]
    ELSE
        LET r == update_fields(storage[booking_id], update_request, t)
        IN  [storage |-> [storage EXCEPT ![booking_id] = r.booking],
             response |-> IF r.raised THEN InvalidStatus
                          ELSE OK("update_booking", booking_copy(r.booking))]

\* PATCH /api/bookings/{booking_id}
update_booking(booking_id, update_request) ==
    LET r == update_booking_result(bookings_storage, booking_id, update_request, now)
    IN  /\ request' = [op |-> "update_booking", booking_id |-> booking_id,
                       update_request |-> update_request]
        /\ bookings_storage' = r.storage
        /\ response' = r.response
        /\ UNCHANGED <<client, now, creates, loop>>

\* The attributes of the flipt_service instance: those FliptService defines.
FliptService ==
    {"client", "tracer", "_initialize_client", "evaluate_boolean",
     "evaluate_variant", "get_price_display_strategy",
     "is_real_time_availability_enabled", "is_loyalty_program_enabled",
     "is_instant_booking_enabled"}

\* An exception no handler catches: the framework answers 500.
InternalServerError(op) ==
    [op |-> op, status_code |-> 500, body |-> [detail |-> "Internal Server Error"]]

\* What flipt_service.evaluate_batch_boolean hands back to search: a dict of
\* the two flags; nothing when the attribute lookup raises.
BatchFlags ==
    IF "evaluate_batch_boolean" \in FliptService
    THEN [{"real-time-availability", "loyalty-program"} -> BOOLEAN]
    ELSE {NoAnswers}

\* The response of search_hotels_endpoint: the strategy is resolved, then
\* flipt_service.evaluate_batch_boolean is looked up (main.py:133); the
\* AttributeError of a missing attribute is caught nowhere.
search_hotels_endpoint_response(variant, batch_flags) ==
    LET price_strategy == get_price_display_strategy(variant)
    IN  IF "evaluate_batch_boolean" \notin FliptService
        THEN InternalServerError("search_hotels_endpoint")
        ELSE OK("search_hotels_endpoint",
                [price_display_strategy |-> price_strategy,
                 real_time_availability |-> batch_flags["real-time-availability"],
                 loyalty_program_enabled |-> batch_flags["loyalty-program"]])

\* GET /api/hotels
search_hotels_endpoint(variant, batch_flags) ==
    /\ request' = [op |-> "search_hotels_endpoint",
                   answers |-> [variant |-> variant]]
    /\ response' = search_hotels_endpoint_response(variant, batch_flags)
    /\ UNCHANGED <<bookings_storage, client, now, creates, loop>>

\* ------------------------------------------------------- the service
\* The variant answers of the runs of Spec: the evaluation fails or answers
\* "with-fees", so bookings are priced in two ways.
SpecVariantResults ==
    {v \in VariantResults : v.raises \/ v.variant_key = "with-fees"}

\* The outside world during one book_hotel call; nothing is consulted when
\* the handler returns at its validation.
Answers(hotel_id, booking, variants, variations) ==
    IF book_hotel_rejects(hotel_id, booking) # 0
    THEN {NoAnswers}
    ELSE [instant : BooleanResults, variant : variants, variation : variations,
          hex8 : Hex8, hex6 : Hex6, t2 : now..MaxClock, t3 : now..MaxClock]

\* One request is handled at a time, from its first statement to its last:
\* the handlers are coroutines without an await (SpecEventLoop below runs
\* them statement by statement).
Handle ==
    \/ /\ Waiting
       /\ \E hotel_id \in PathHotelIds, booking \in BookingRequests :
             \E env \in Answers(hotel_id, booking, SpecVariantResults, {100}) :
                 book_hotel(hotel_id, booking, env)
    \/ /\ Waiting
       /\ \E status \in StatusFilters : get_bookings(status)
    \/ /\ Waiting
       /\ \E booking_id \in BookingIds : get_booking(booking_id)
    \/ /\ Waiting
       /\ \E booking_id \in BookingIds, update_request \in BookingUpdateRequests :
             update_booking(booking_id, update_request)
    \/ /\ Waiting
       /\ \E variant \in SpecVariantResults, batch_flags \in BatchFlags :
             search_hotels_endpoint(variant, batch_flags)

\* The handler has returned: its response is sent and the service waits for
\* the next request.
Reply ==
    /\ ~Waiting
    /\ request' = NoRequest
    /\ response' = NoResponse
    /\ UNCHANGED <<bookings_storage, client, now, creates, loop>>

Next ==
    \/ Tick
    \/ Handle
    \/ Reply

Spec == Init /\ [][Next]_vars

\* ---------------------------------------------------------- the event loop
\* uvicorn.run(app) serves every request on one asyncio event loop: the loop
\* is inside one handler coroutine at a time and leaves it only where the
\* coroutine awaits or returns. Below the handlers run statement by statement.

\* Mutant of awaits: every statement is followed by a suspension point.
awaits_after_every_statement(op, pc) == TRUE

\* Whether the statement at pc of handler op suspends the coroutine: the
\* handlers contain no await, async with or async for.
awaits(op, pc) == FALSE

\* The outside world of the book_hotel in flight: the instant-booking flag is
\* off, the variant evaluation fails.
LoopEnv ==
    [instant |-> [raises |-> FALSE, enabled |-> FALSE],
     variant |-> [raises |-> TRUE, variant_key |-> ""],
     variation |-> 100, hex8 |-> "0000000A", hex6 |-> "00000C"]

\* The requests that can be in flight together: one create, updates, a get
\* and a list, all about the booking the create stores.
LoopRequests ==
    {[op |-> "book_hotel", hotel_id |-> "hotel-1", booking |-> b, env |-> LoopEnv] :
        b \in {x \in BookingRequests : x.hotel_id = "hotel-1"}}
    \cup {[op |-> "update_booking",
           booking_id |-> generate_booking_id(LoopEnv.hex8),
           update_request |-> u] :
             u \in {[status |-> "confirmed", confirmation_number |-> None],
                    [status |-> None,
                     confirmation_number |-> generate_confirmation_number(LoopEnv.hex6)],
                    [status |-> "rejected",
                     confirmation_number |-> generate_confirmation_number(LoopEnv.hex6)]}}
    \cup {[op |-> "get_booking", booking_id |-> generate_booking_id(LoopEnv.hex8)]}
    \cup {[op |-> "get_bookings", status |-> "pending"]}

\* The frame of a handler before its first statement: its position, its
\* locals (updated of update_booking, the bookings get_bookings selected, by
\* id), the clock readings it made, and its response.
NewTask ==
    [pc |-> "start", updated |-> FALSE, filtered_bookings |-> {},
     t1 |-> 0, t2 |-> 0, t3 |-> 0, response |-> NoResponse]

InitEventLoop ==
    /\ bookings_storage = <<>>
    /\ client \in {"FliptClient", None}
    /\ now = 0
    /\ creates = 0
    /\ request = NoRequest
    /\ response = NoResponse
    /\ running = {}
    /\ \E requests \in SUBSET LoopRequests :
           /\ Cardinality(requests) = NumTasks
           /\ tasks = [r \in requests |-> NewTask]

\* The event loop may run a statement of coroutine self: it is inside no
\* other coroutine, and self has not returned.
Scheduled(self) ==
    /\ running \subseteq {self}
    /\ tasks[self].pc # "done"

\* Coroutine self has run a statement and its frame is now frame: the loop
\* stays inside it unless the handler is done or the statement awaits.
Resume(self, frame) ==
    /\ tasks' = [tasks EXCEPT ![self] = frame]
    /\ running' = IF frame.pc = "done" \/ awaits(self.op, tasks[self].pc)
                  THEN {} ELSE {self}

\* The outside world of book_hotel with the clock readings of its frame.
FrameEnv(self, frame) ==
    [instant |-> self.env.instant, variant |-> self.env.variant,
     variation |-> self.env.variation, hex8 |-> self.env.hex8,
     hex6 |-> self.env.hex6, t2 |-> frame.t2, t3 |-> frame.t3]

\* One statement of book_hotel.
book_hotel_step(self) ==
    LET frame == tasks[self]
        data == booking_data(self.hotel_id, self.booking,
                             FrameEnv(self, frame), frame.t1)
    IN  /\ self.op = "book_hotel"
        /\ Scheduled(self)
        /\ CASE frame.pc = "start" ->
                  /\ Resume(self,
                        IF get_hotel_by_id(self.hotel_id) = NoHotel
                        THEN [frame EXCEPT !.pc = "done", !.response =
                                 HTTPException("book_hotel", 404, "Hotel not found")]
                        ELSE IF self.booking.hotel_id # self.hotel_id
                        THEN [frame EXCEPT !.pc = "done", !.response =
                                 HTTPException("book_hotel", 400, "Hotel ID mismatch")]
                        ELSE [frame EXCEPT !.pc = "booking_data"])
                  /\ UNCHANGED <<bookings_storage, now, creates>>
             [] frame.pc = "booking_data" ->
                  \E t2 \in now..MaxClock :
                      /\ Resume(self, [frame EXCEPT !.pc = "store",
                                                    !.t1 = now, !.t2 = t2])
                      /\ now' = t2
                      /\ UNCHANGED <<bookings_storage, creates>>
             [] frame.pc = "store" ->
                  /\ bookings_storage' =
                         store_booking(bookings_storage, data.booking_id, data)
                  /\ creates' = creates + 1
                  /\ Resume(self, [frame EXCEPT !.pc = "return"])
                  /\ UNCHANGED now
             [] frame.pc = "return" ->
                  /\ Resume(self, [frame EXCEPT !.pc = "done", !.t3 = now,
                        !.response = OK("book_hotel", BookingResponse(data, now))])
                  /\ UNCHANGED <<bookings_storage, now, creates>>
        /\ UNCHANGED <<client, request, response>>

\* One statement of update_booking; booking is the dict stored under
\* booking_id (no request deletes or replaces it: the one create in flight
\* is the only one that draws this id).
update_booking_step(self) ==
    LET frame == tasks[self]
        booking_id == self.booking_id
        update_request == self.update_request
    IN  /\ self.op = "update_booking"
        /\ Scheduled(self)
        /\ CASE frame.pc = "start" ->
                  /\ Resume(self,
                        IF booking_id \notin DOMAIN bookings_storage
                        THEN [frame EXCEPT !.pc = "done", !.response =
                                 HTTPException("update_booking", 404, "Booking not found")]
                        ELSE [frame EXCEPT !.pc = "status"])
                  /\ UNCHANGED bookings_storage
             [] frame.pc = "status" ->
                  IF update_request.status = None THEN
                      /\ Resume(self, [frame EXCEPT !.pc = "confirmation_number"])
                      /\ UNCHANGED bookings_storage
                  ELSE IF update_request.status \notin valid_statuses THEN
                      /\ Resume(self, [frame EXCEPT !.pc = "done",
                                                    !.response = InvalidStatus])
                      /\ UNCHANGED bookings_storage
                  ELSE
                      /\ bookings_storage' = [bookings_storage EXCEPT
                             ![booking_id].status = update_request.status]
                      /\ Resume(self, [frame EXCEPT !.pc = "confirmation_number",
                                                    !.updated = TRUE])
             [] frame.pc = "confirmation_number" ->
                  IF update_request.confirmation_number = None THEN
                      /\ Resume(self, [frame EXCEPT !.pc = "updated_at"])
                      /\ UNCHANGED bookings_storage
                  ELSE
                      /\ bookings_storage' = [bookings_storage EXCEPT
                             ![booking_id].confirmation_number =
                                 update_request.confirmation_number]
                      /\ Resume(self, [frame EXCEPT !.pc = "updated_at",
                                                    !.updated = TRUE])
             [] frame.pc = "updated_at" ->
                  IF frame.updated THEN
                      /\ bookings_storage' = [bookings_storage EXCEPT
                             ![booking_id].updated_at = now]
                      /\ Resume(self, [frame EXCEPT !.pc = "return", !.t1 = now])
                  ELSE
                      /\ Resume(self, [frame EXCEPT !.pc = "return"])
                      /\ UNCHANGED bookings_storage
             [] frame.pc = "return" ->
                  /\ Resume(self, [frame EXCEPT !.pc = "done", !.response =
                        OK("update_booking",
                           booking_copy(bookings_storage[booking_id]))])
                  /\ UNCHANGED bookings_storage
        /\ UNCHANGED <<client, now, creates, request, response>>

\* get_booking: the lookup and the copy it returns.
get_booking_step(self) ==
    /\ self.op = "get_booking"
    /\ Scheduled(self)
    /\ Resume(self, [tasks[self] EXCEPT !.pc = "done", !.response =
                        get_booking_response(bookings_storage, self.booking_id)])
    /\ UNCHANGED <<bookings_storage, client, now, creates, request, response>>

\* One statement of get_bookings: the list of the selected dicts, then the
\* copies of what those dicts hold by then.
get_bookings_step(self) ==
    LET frame == tasks[self]
    IN  /\ self.op = "get_bookings"
        /\ Scheduled(self)
        /\ CASE frame.pc = "start" ->
                  Resume(self, [frame EXCEPT !.pc = "return",
                      !.filtered_bookings =
                          {id \in DOMAIN bookings_storage :
                              bookings_storage[id] \in
                                  filtered_bookings(bookings_storage, self.status)}])
             [] frame.pc = "return" ->
                  Resume(self, [frame EXCEPT !.pc = "done", !.response =
                      bookings_response(
                          {bookings_storage[id] : id \in frame.filtered_bookings},
                          self.status)])
        /\ UNCHANGED <<bookings_storage, client, now, creates, request, response>>

NextEventLoop ==
    \/ Tick
    \/ \E self \in DOMAIN tasks : book_hotel_step(self)
    \/ \E self \in DOMAIN tasks : update_booking_step(self)
    \/ \E self \in DOMAIN tasks : get_booking_step(self)
    \/ \E self \in DOMAIN tasks : get_bookings_step(self)

SpecEventLoop == InitEventLoop /\ [][NextEventLoop]_vars

\* ------------------------------------------------- bookings and prices
\* The service with every answer of the variant backend and every random
\* draw of the dynamic strategy: bookings are created and updated.
PricingUpdateRequests ==
    {[status |-> "rejected", confirmation_number |-> None],
     [status |-> None, confirmation_number |-> generate_confirmation_number("00000C")]}

\* The outside world of these runs: the instant-booking evaluation fails,
\* the clock stands still during a call, and the random draw varies where
\* it is used, under the dynamic strategy.
PricingAnswers(hotel_id, booking) ==
    {env \in Answers(hotel_id, booking, VariantResults, Variations) :
        /\ env.instant.raises
        /\ env.t2 = now /\ env.t3 = now
        /\ env.variation = 100 \/ env.variant.variant_key = "dynamic"}

NextPricing ==
    \/ Tick
    \/ /\ Waiting
       /\ \E booking \in {b \in BookingRequests : b.hotel_id = "hotel-1"} :
             \E env \in PricingAnswers("hotel-1", booking) :
                 book_hotel("hotel-1", booking, env)
    \/ /\ Waiting
       /\ \E booking_id \in BookingIds, update_request \in PricingUpdateRequests :
             update_booking(booking_id, update_request)
    \/ Reply

SpecPricing == Init /\ [][NextPricing]_vars

\* ------------------------------------------------------ the helpers alone
\* The flag adapter and the helpers of data.py called on their own, on
\* sampled arguments; request holds the call and response what it returned.
Returned(op, value) == [op |-> op, status_code |-> 0, body |-> value]

\* Defaults a caller can pass to evaluate_variant.
VariantDefaults == {None, "per-night", "total"}
FlagKeys == {"instant-booking", "real-time-availability", "loyalty-program"}

call_evaluate_boolean(flag_key, result, default) ==
    /\ request' = [op |-> "evaluate_boolean", flag_key |-> flag_key,
                   result |-> result, default |-> default]
    /\ response' = Returned("evaluate_boolean",
                            evaluate_boolean(flag_key, result, default))
    /\ UNCHANGED <<bookings_storage, client, now, creates, loop>>

call_evaluate_variant(flag_key, result, default) ==
    /\ request' = [op |-> "evaluate_variant", flag_key |-> flag_key,
                   result |-> result, default |-> default]
    /\ response' = Returned("evaluate_variant",
                            evaluate_variant(flag_key, result, default))
    /\ UNCHANGED <<bookings_storage, client, now, creates, loop>>

call_get_price_display_strategy(result) ==
    /\ request' = [op |-> "get_price_display_strategy", result |-> result]
    /\ response' = Returned("get_price_display_strategy",
                            get_price_display_strategy(result))
    /\ UNCHANGED <<bookings_storage, client, now, creates, loop>>

call_is_instant_booking_enabled(result) ==
    /\ request' = [op |-> "is_instant_booking_enabled", result |-> result]
    /\ response' = Returned("is_instant_booking_enabled",
                            is_instant_booking_enabled(result))
    /\ UNCHANGED <<bookings_storage, client, now, creates, loop>>

\* The date strings calculate_nights is called on: one that is no ISO date,
\* and ISO dates at midnight and noon, naive, with Z and with +00:00.
DateStrings ==
    {DateString(FALSE, 0, 0, "")}
    \cup {DateString(TRUE, day, hour, tz) :
            day \in 0..MaxDay, hour \in {0, 12}, tz \in {"", "Z", "+00:00"}}

call_calculate_nights(checkin, checkout) ==
    /\ request' = [op |-> "calculate_nights", checkin |-> checkin,
                   checkout |-> checkout]
    /\ response' = Returned("calculate_nights", calculate_nights(checkin, checkout))
    /\ UNCHANGED <<bookings_storage, client, now, creates, loop>>

\* The arguments calculate_price_with_strategy is called on: base prices of
\* the catalogue, and strategy names known and unknown.
BasePrices == {HOTELS[h].base_price_per_night : h \in {"hotel-1", "hotel-4"}}
Strategies == {"total", "per-night", "with-fees", "dynamic", "", "bogus", "Total"}

call_calculate_price_with_strategy(base_price, nights, strategy, variation) ==
    /\ request' = [op |-> "calculate_price_with_strategy",
                   base_price |-> base_price, nights |-> nights,
                   strategy |-> strategy]
    /\ response' = Returned("calculate_price_with_strategy",
           calculate_price_with_strategy(base_price, nights, strategy, variation))
    /\ UNCHANGED <<bookings_storage, client, now, creates, loop>>

\* One call at a time; Reply ends it.
NextHelpers ==
    \/ /\ Waiting
       /\ \E flag_key \in FlagKeys, result \in BooleanResults, default \in BOOLEAN :
              call_evaluate_boolean(flag_key, result, default)
    \/ /\ Waiting
       /\ \E result \in VariantResults, default \in VariantDefaults :
              call_evaluate_variant("price-display-strategy", result, default)
    \/ /\ Waiting
       /\ \E result \in VariantResults : call_get_price_display_strategy(result)
    \/ /\ Waiting
       /\ \E result \in BooleanResults : call_is_instant_booking_enabled(result)
    \/ /\ Waiting
       /\ \E checkin \in DateStrings, checkout \in DateStrings :
              call_calculate_nights(checkin, checkout)
    \/ /\ Waiting
       /\ \E base_price \in BasePrices, nights \in 1..MaxNights :
              \E strategy \in Strategies, variation \in Variations :
                  call_calculate_price_with_strategy(base_price, nights,
                                                     strategy, variation)
    \/ Reply

SpecHelpers == Init /\ [][NextHelpers]_vars

\* =================================================================== claims
\* All bookings of the store.
stored_bookings == {bookings_storage[id] : id \in DOMAIN bookings_storage}

\* The fields of a stored booking.
BookingFields ==
    {"booking_id", "hotel_id", "status", "confirmation_number", "total_price",
     "guest_name", "guest_email", "checkin", "checkout", "guests",
     "created_at", "updated_at"}

\* The last request was a book_hotel that created a booking.
Booked == request.op = "book_hotel" /\ response.status_code = 200

\* The instant-booking flag as the backend answered it during the last
\* book_hotel: true only with a client, no failure and an enabled result.
InstantBookingFlag ==
    /\ client # None
    /\ ~request.answers.instant.raises
    /\ request.answers.instant.enabled

\* C1: after every successful book_hotel the store holds, under the new
\* booking_id, a booking that is confirmed with a non-empty confirmation
\* number if the instant-booking flag evaluated to true, and pending with no
\* confirmation number if it evaluated to false or the evaluation failed.
C1_InstantBookingDecidesStatus ==
    Booked =>
        LET booking_id == response.body.booking_id
        IN  /\ booking_id \in DOMAIN bookings_storage
            /\ bookings_storage[booking_id].booking_id = booking_id
            /\ InstantBookingFlag =>
                   /\ bookings_storage[booking_id].status = "confirmed"
                   /\ Truthy(bookings_storage[booking_id].confirmation_number)
            /\ ~InstantBookingFlag =>
                   /\ bookings_storage[booking_id].status = "pending"
                   /\ bookings_storage[booking_id].confirmation_number = None

\* C1 witness: a booking was just created while the flag backend failed, and
\* another one, created with the flag on, is confirmed.
C1_Witness ==
    /\ Booked
    /\ client # None
    /\ request.answers.instant.raises
    /\ bookings_storage[response.body.booking_id].status = "pending"
    /\ \E b \in stored_bookings :
           b.status = "confirmed" /\ b.confirmation_number \in ConfirmationNumbers

\* C2: a get_booking served directly after a successful book_hotel, for the
\* booking just created, returns for every field of the book_hotel response
\* the value book_hotel returned.
C2_GetAfterCreateIdentical ==
    Booked =>
        LET got == get_booking_response(bookings_storage, response.body.booking_id)
        IN  /\ got.status_code = 200
            /\ \A f \in DOMAIN response.body : got.body[f] = response.body[f]

\* C3: update_booking on an existing booking with a status outside pending,
\* confirmed, rejected answers 400 and leaves the store as it was, whatever
\* confirmation number comes with it.
C3_InvalidStatusRejected ==
    [][\A booking_id \in BookingIds, update_request \in BookingUpdateRequests :
        (/\ update_booking(booking_id, update_request)
         /\ booking_id \in DOMAIN bookings_storage
         /\ update_request.status \notin {None, "pending", "confirmed", "rejected"})
        => /\ response'.status_code = 400
           /\ bookings_storage' = bookings_storage]_vars

\* C3 witness: an invalid status sent together with a confirmation number
\* that differs from the booking's was answered 400.
C3_Witness ==
    /\ request.op = "update_booking"
    /\ response.status_code = 400
    /\ request.booking_id \in DOMAIN bookings_storage
    /\ request.update_request.confirmation_number # None
    /\ bookings_storage[request.booking_id].confirmation_number
           # request.update_request.confirmation_number

\* C4: get_booking and update_booking answer 404 exactly when the id is no
\* key of the store, and then change nothing; get_bookings answers 200 for
\* every filter.
C4_NotFoundOnlyForUnknownIds ==
    [][/\ \A booking_id \in BookingIds :
            get_booking(booking_id) =>
                /\ (response'.status_code = 404)
                       <=> (booking_id \notin DOMAIN bookings_storage)
                /\ bookings_storage' = bookings_storage
       /\ \A booking_id \in BookingIds, update_request \in BookingUpdateRequests :
            update_booking(booking_id, update_request) =>
                /\ (response'.status_code = 404)
                       <=> (booking_id \notin DOMAIN bookings_storage)
                /\ booking_id \notin DOMAIN bookings_storage
                       => bookings_storage' = bookings_storage
       /\ \A status \in StatusFilters :
            get_bookings(status) => response'.status_code = 200]_vars

\* C4 witness: an update of an id that is not in the store, while another
\* booking is, was answered 404.
C4_Witness ==
    /\ request.op = "update_booking"
    /\ response.status_code = 404
    /\ request.booking_id \notin DOMAIN bookings_storage
    /\ request.update_request.status = "confirmed"
    /\ bookings_storage # <<>>

\* booking b2 is booking b1 but for the fields in changed.
SameExcept(b1, b2, changed) ==
    \A f \in BookingFields \ changed : b2[f] = b1[f]

\* C5: a successful update that carries only a status changes nothing but
\* the status and updated_at of that booking; one that carries only a
\* confirmation number changes nothing but confirmation_number and
\* updated_at; every other booking stays as it was.
C5_UpdateChangesOnlyWhatItCarries ==
    [][\A booking_id \in BookingIds, update_request \in BookingUpdateRequests :
        (/\ update_booking(booking_id, update_request)
         /\ booking_id \in DOMAIN bookings_storage
         /\ response'.status_code = 200)
        => /\ DOMAIN bookings_storage' = DOMAIN bookings_storage
           /\ \A other \in DOMAIN bookings_storage \ {booking_id} :
                  bookings_storage'[other] = bookings_storage[other]
           /\ (update_request.status # None
               /\ update_request.confirmation_number = None)
                  => /\ SameExcept(bookings_storage[booking_id],
                                   bookings_storage'[booking_id],
                                   {"status", "updated_at"})
                     /\ bookings_storage'[booking_id].status = update_request.status
           /\ (update_request.status = None
               /\ update_request.confirmation_number # None)
                  => /\ SameExcept(bookings_storage[booking_id],
                                   bookings_storage'[booking_id],
                                   {"confirmation_number", "updated_at"})
                     /\ bookings_storage'[booking_id].confirmation_number
                            = update_request.confirmation_number]_vars

\* C5 witness: a booking that has a confirmation number was rejected by a
\* status-only update and still has the number; a second booking exists.
C5_Witness ==
    /\ request.op = "update_booking"
    /\ response.status_code = 200
    /\ request.update_request = [status |-> "rejected", confirmation_number |-> None]
    /\ bookings_storage[request.booking_id].confirmation_number # None
    /\ Cardinality(DOMAIN bookings_storage) = 2

\* A successful update of an existing booking that carries a field.
UpdateCarrying(booking_id, update_request) ==
    /\ update_booking(booking_id, update_request)
    /\ booking_id \in DOMAIN bookings_storage
    /\ response'.status_code = 200
    /\ update_request.status # None \/ update_request.confirmation_number # None

\* C6 as stated: after every successful update that carries a status or a
\* confirmation number, updated_at of the booking is strictly later than its
\* created_at.
C6_UpdatedStrictlyAfterCreated ==
    [][\A booking_id \in BookingIds, update_request \in BookingUpdateRequests :
        UpdateCarrying(booking_id, update_request)
        => bookings_storage'[booking_id].updated_at
               > bookings_storage'[booking_id].created_at]_vars

\* C6 amended: updated_at is never earlier than created_at; a successful
\* update that carries a field sets updated_at to the clock's reading, which
\* is not earlier than the value it replaces and is strictly later than
\* created_at whenever the clock has moved on since the booking was created.
C6_UpdatedNotBeforeCreated ==
    /\ [](\A b \in stored_bookings : b.updated_at >= b.created_at)
    /\ [][\A booking_id \in BookingIds, update_request \in BookingUpdateRequests :
            UpdateCarrying(booking_id, update_request)
            => /\ bookings_storage'[booking_id].updated_at = now
               /\ bookings_storage'[booking_id].updated_at
                      >= bookings_storage[booking_id].updated_at
               /\ now > bookings_storage[booking_id].created_at
                      => bookings_storage'[booking_id].updated_at
                             > bookings_storage'[booking_id].created_at]_vars

\* C6 witness: a booking was updated after the clock had moved on, and its
\* updated_at is later than its created_at.
C6_Witness ==
    /\ request.op = "update_booking"
    /\ response.status_code = 200
    /\ request.update_request.status = "confirmed"
    /\ bookings_storage[request.booking_id].updated_at = now
    /\ bookings_storage[request.booking_id].updated_at
           > bookings_storage[request.booking_id].created_at

\* C7: update_booking of an existing booking with neither field returns the
\* booking and leaves the store as it was, updated_at included.
C7_EmptyUpdateChangesNothing ==
    [][\A booking_id \in BookingIds :
        (/\ update_booking(booking_id, [status |-> None, confirmation_number |-> None])
         /\ booking_id \in DOMAIN bookings_storage)
        => /\ bookings_storage' = bookings_storage
           /\ response' = OK("update_booking",
                             booking_copy(bookings_storage[booking_id]))]_vars

\* C7 witness: an update with neither field was answered 200 at a time later
\* than the booking's updated_at.
C7_Witness ==
    /\ request.op = "update_booking"
    /\ response.status_code = 200
    /\ request.update_request = [status |-> None, confirmation_number |-> None]
    /\ bookings_storage[request.booking_id].updated_at < now

\* The copies get_bookings should return for a status.
CopiesWithStatus(status) ==
    {booking_copy(b) : b \in {x \in stored_bookings : x.status = status}}
AllCopies == {booking_copy(b) : b \in stored_bookings}

\* C8 as stated: get_bookings without a filter returns all bookings; with any
\* filter value, the empty string included, it returns exactly the bookings
\* whose status equals the value; total is the number returned and the store
\* is not modified.
C8_ListFiltersByStatus ==
    [][\A status \in StatusFilters :
        get_bookings(status)
        => /\ bookings_storage' = bookings_storage
           /\ response'.body.total = Cardinality(response'.body.bookings)
           /\ response'.body.bookings =
                  IF status = None THEN AllCopies ELSE CopiesWithStatus(status)]_vars

\* C8 amended: without a filter, and with the empty string as filter,
\* get_bookings returns all bookings; with any non-empty filter value it
\* returns exactly the bookings whose status equals the value; total is the
\* number returned and the store is not modified.
C8_ListFiltersByNonEmptyStatus ==
    [][\A status \in StatusFilters :
        get_bookings(status)
        => /\ bookings_storage' = bookings_storage
           /\ response'.body.total = Cardinality(response'.body.bookings)
           /\ response'.body.bookings =
                  IF status \in {None, ""} THEN AllCopies
                  ELSE CopiesWithStatus(status)]_vars

\* C8 witness: of two stored bookings the filter "pending" returned one.
C8_Witness ==
    /\ request.op = "get_bookings"
    /\ request.status = "pending"
    /\ response.body.total = 1
    /\ Cardinality(DOMAIN bookings_storage) = 2

\* C9 as stated: every create receives an identifier not issued before, so
\* after N creates the store holds N bookings.
C9_CreatesNeverCollide == Cardinality(DOMAIN bookings_storage) = creates

\* Every handler in flight has returned.
AllDone == \A r \in DOMAIN tasks : tasks[r].pc = "done"

\* The orders in which the requests in flight can be handled one by one.
Orders ==
    {order \in [1..Cardinality(DOMAIN tasks) -> DOMAIN tasks] :
        \A i, j \in DOMAIN order : i # j => order[i] # order[j]}

\* Request r handled in one piece on the store storage, with the clock
\* readings its coroutine made.
Sequentially(storage, r) ==
    CASE r.op = "book_hotel" ->
            book_hotel_result(storage, r.hotel_id, r.booking,
                              FrameEnv(r, tasks[r]), tasks[r].t1)
      [] r.op = "update_booking" ->
            update_booking_result(storage, r.booking_id, r.update_request,
                                  tasks[r].t1)
      [] r.op = "get_booking" ->
            [storage |-> storage,
             response |-> get_booking_response(storage, r.booking_id)]
      [] r.op = "get_bookings" ->
            [storage |-> storage,
             response |-> bookings_response(filtered_bookings(storage, r.status),
                                            r.status)]

\* The requests of order handled one by one from the i-th on: the store at
\* the end, and whether every response is the one the coroutine returned.
RECURSIVE OneByOne(_, _, _)
OneByOne(order, i, acc) ==
    IF i > Len(order) THEN acc
    ELSE LET r == Sequentially(acc.storage, order[i])
         IN  OneByOne(order, i + 1,
                      [storage |-> r.storage,
                       same |-> acc.same /\ r.response = tasks[order[i]].response])

\* The updates in flight that carry only a status / only a confirmation
\* number.
StatusOnly ==
    {r \in DOMAIN tasks : /\ r.op = "update_booking"
                          /\ r.update_request.status # None
                          /\ r.update_request.confirmation_number = None}
ConfirmationOnly ==
    {r \in DOMAIN tasks : /\ r.op = "update_booking"
                          /\ r.update_request.status = None
                          /\ r.update_request.confirmation_number # None}
Updates == {r \in DOMAIN tasks : r.op = "update_booking"}

\* C10: when the handlers of the requests in flight have all returned, the
\* store and every response are what handling the same requests one by one,
\* in some order, gives; and when a status-only and a confirmation-only
\* update of one booking are the only updates in flight and both succeeded,
\* the booking has the status of the one and the confirmation number of the
\* other.
C10_HandlersAreSerializable ==
    AllDone =>
        /\ \E order \in Orders :
               LET end == OneByOne(order, 1, [storage |-> <<>>, same |-> TRUE])
               IN  end.same /\ end.storage = bookings_storage
        /\ \A s \in StatusOnly, c \in ConfirmationOnly :
               (/\ Updates = {s, c}
                /\ s.booking_id = c.booking_id
                /\ tasks[s].response.status_code = 200
                /\ tasks[c].response.status_code = 200)
               => /\ bookings_storage[s.booking_id].status = s.update_request.status
                  /\ bookings_storage[s.booking_id].confirmation_number
                         = c.update_request.confirmation_number

\* C10 witness: a create, a status-only update and a confirmation-only
\* update were in flight together, all three succeeded, and the booking is
\* confirmed and has the confirmation number.
C10_Witness ==
    /\ tasks # <<>>
    /\ AllDone
    /\ \E b \in DOMAIN tasks : b.op = "book_hotel" /\ tasks[b].response.status_code = 200
    /\ \E s \in StatusOnly, c \in ConfirmationOnly :
           /\ Updates = {s, c}
           /\ tasks[s].response.status_code = 200
           /\ tasks[c].response.status_code = 200
           /\ bookings_storage[s.booking_id].status = "confirmed"
           /\ bookings_storage[s.booking_id].confirmation_number
                  = c.update_request.confirmation_number

\* The flag backend could not be asked, or its call failed.
BackendFailed == client = None \/ request.result.raises

\* C11: evaluate_boolean and evaluate_variant return the caller's default
\* when there is no client or the backend call fails, and evaluate_variant
\* also when the backend's variant key is empty; on failure the price
\* display strategy is "per-night" and instant booking is false.
C11_FlagFailureYieldsDefault ==
    /\ request.op = "evaluate_boolean" =>
           /\ response.body \in BOOLEAN
           /\ BackendFailed => response.body = request.default
    /\ (/\ request.op = "evaluate_variant"
        /\ BackendFailed \/ request.result.variant_key = "")
           => response.body = request.default
    /\ (request.op = "get_price_display_strategy" /\ BackendFailed)
           => response.body = "per-night"
    /\ (request.op = "is_instant_booking_enabled" /\ BackendFailed)
           => response.body = FALSE

\* C11 witness: with a client, a failed backend call was answered with the
\* caller's default True.
C11_Witness ==
    /\ request.op = "evaluate_boolean"
    /\ client # None
    /\ request.result.raises
    /\ request.default = TRUE
    /\ response.body = TRUE

\* C12: every search is answered 200 with the resolved strategy name and
\* the two boolean flags, each the backend's evaluation or, on failure, its
\* default (true for real-time-availability, false for loyalty-program).
C12_SearchAnswersWithFlags ==
    request.op = "search_hotels_endpoint" =>
        /\ response.status_code = 200
        /\ response.body.price_display_strategy
               = get_price_display_strategy(request.answers.variant)
        /\ \E rta \in BooleanResults, loyalty \in BooleanResults :
               /\ response.body.real_time_availability
                      = is_real_time_availability_enabled(rta)
               /\ response.body.loyalty_program_enabled
                      = is_loyalty_program_enabled(loyalty)

\* C13: book_hotel for a hotel id that is not in the catalogue answers 404,
\* also when the body names another hotel; for a known hotel id and a body
\* that names another hotel it answers 400; in both cases the store stays as
\* it was.
C13_RejectedBookingChangesNothing ==
    [][\A hotel_id \in PathHotelIds, booking \in BookingRequests :
        (/\ hotel_id \notin DOMAIN HOTELS \/ booking.hotel_id # hotel_id
         /\ book_hotel(hotel_id, booking, NoAnswers))
        => /\ response'.status_code =
                  IF hotel_id \notin DOMAIN HOTELS THEN 404 ELSE 400
           /\ bookings_storage' = bookings_storage
           /\ creates' = creates]_vars

\* C13 witness: with a booking in the store, a request for an unknown hotel
\* whose body names another hotel was answered 404.
C13_Witness ==
    /\ request.op = "book_hotel"
    /\ response.status_code = 404
    /\ request.hotel_id \notin DOMAIN HOTELS
    /\ request.booking.hotel_id # request.hotel_id
    /\ bookings_storage # <<>>

\* What a date string denotes: whether it parses, whether it carries a UTC
\* offset (after Z is replaced), and its instant in hours.
Parseable(s) == s.iso
Aware(s) == s.tz # ""
Instant(s) == s.day * 24 + s.hour
\* The hours from checkin to checkout of the call request holds.
StayHours == Instant(request.checkout) - Instant(request.checkin)

\* C14 as stated: calculate_nights returns an integer >= 1; for two
\* parseable instants it returns max(1, whole days of the difference,
\* floored); it returns 1 when either input is unparseable, when checkout
\* is not after checkin, or when the difference is less than one day.
C14_NightsOfParseableInstants ==
    request.op = "calculate_nights" =>
        /\ response.body \in Nat /\ response.body >= 1
        /\ (Parseable(request.checkin) /\ Parseable(request.checkout))
               => response.body = Max(1, StayHours \div 24)
        /\ (\/ ~Parseable(request.checkin) \/ ~Parseable(request.checkout)
            \/ StayHours <= 0 \/ StayHours < 24)
               => response.body = 1

\* C14 amended: calculate_nights returns an integer >= 1; for two parseable
\* instants that both carry a UTC offset or both carry none it returns
\* max(1, whole days of the difference, floored); it returns 1 when either
\* input is unparseable, when exactly one of the two carries a UTC offset,
\* when checkout is not after checkin, or when the difference is less than
\* one day.
C14_NightsOfComparableInstants ==
    request.op = "calculate_nights" =>
        /\ response.body \in Nat /\ response.body >= 1
        /\ (/\ Parseable(request.checkin) /\ Parseable(request.checkout)
            /\ Aware(request.checkin) = Aware(request.checkout))
               => response.body = Max(1, StayHours \div 24)
        /\ (\/ ~Parseable(request.checkin) \/ ~Parseable(request.checkout)
            \/ Aware(request.checkin) # Aware(request.checkout)
            \/ StayHours <= 0 \/ StayHours < 24)
               => response.body = 1

\* C14 witness: a stay of two and a half days between a Z and a +00:00
\* string gave 2 nights.
C14_Witness ==
    /\ request.op = "calculate_nights"
    /\ request.checkin.tz = "Z"
    /\ request.checkout.tz = "+00:00"
    /\ StayHours = 60
    /\ response.body = 2

\* C15: for a strategy that is none of total, per-night, with-fees and
\* dynamic, the empty string included, calculate_price_with_strategy returns
\* what it returns for "total": display price base price times nights, the
\* label of the total price, and no breakdown.
C15_UnknownStrategyIsTotal ==
    (/\ request.op = "calculate_price_with_strategy"
     /\ request.strategy \notin {"per-night", "with-fees", "dynamic"})
        => response.body = [display_price |-> request.base_price * request.nights,
                            label |-> "Total Price",
                            breakdown |-> NoBreakdown]

\* C15 witness: the empty strategy priced two nights as their total.
C15_Witness ==
    /\ request.op = "calculate_price_with_strategy"
    /\ request.strategy = ""
    /\ request.nights = 2
    /\ response.body.display_price = 2 * request.base_price
    /\ response.body.breakdown = NoBreakdown

\* C16: an update of an existing booking to a status among pending,
\* confirmed and rejected is answered 200 and leaves the booking with that
\* status, whatever status the booking had (the same one included) and
\* whether or not it has, or the request carries, a confirmation number.
C16_AnyStatusToAnyStatus ==
    [][\A booking_id \in BookingIds, update_request \in BookingUpdateRequests :
        (/\ update_booking(booking_id, update_request)
         /\ booking_id \in DOMAIN bookings_storage
         /\ bookings_storage[booking_id].status \in {"pending", "confirmed", "rejected"}
         /\ update_request.status \in {"pending", "confirmed", "rejected"})
        => /\ response'.status_code = 200
           /\ response'.body.status = update_request.status
           /\ bookings_storage'[booking_id].status = update_request.status]_vars

\* C16 witness: a status-only update moved a booking that has a
\* confirmation number back to pending, in a store where the other booking
\* is rejected.
C16_Witness ==
    /\ request.op = "update_booking"
    /\ response.status_code = 200
    /\ request.update_request = [status |-> "pending", confirmation_number |-> None]
    /\ bookings_storage[request.booking_id].status = "pending"
    /\ bookings_storage[request.booking_id].confirmation_number # None
    /\ \E b \in stored_bookings : b.status = "rejected"

\* C17: in every state each booking of the store has a status among
\* pending, confirmed and rejected and is stored under its own booking_id;
\* no request, answered with success or not, removes a key from the store.
C17_StoreStaysWellFormed ==
    /\ [](\A id \in DOMAIN bookings_storage :
              /\ bookings_storage[id].status \in {"pending", "confirmed", "rejected"}
              /\ bookings_storage[id].booking_id = id)
    /\ [][DOMAIN bookings_storage \subseteq DOMAIN bookings_storage']_vars

\* C17 witness: an update with an invalid status was just refused while the
\* store holds two bookings, one of them rejected.
C17_Witness ==
    /\ request.op = "update_booking"
    /\ response.status_code = 400
    /\ request.update_request.status = "bogus"
    /\ Cardinality(DOMAIN bookings_storage) = 2
    /\ \E b \in stored_bookings : b.status = "rejected"

\* The total price book_hotel should store for a quote: the breakdown's
\* "total" entry when there is one, the display price otherwise.
TotalOf(quote) ==
    IF quote.breakdown # NoBreakdown /\ "total" \in DOMAIN quote.breakdown
    THEN quote.breakdown["total"]
    ELSE quote.display_price

\* C18: the total price book_hotel stores is the breakdown's "total" entry
\* of the quote when the breakdown has one and the quote's display price
\* otherwise; under "per-night", the strategy of a failed flag evaluation,
\* it is base price times nights and not the per-night display price; under
\* "total" and under unknown strategies it is base price times nights; no
\* update changes it.
C18_StoredTotalPrice ==
    /\ [](Booked =>
            LET stored == bookings_storage[response.body.booking_id]
                strategy == get_price_display_strategy(request.answers.variant)
                base_price == HOTELS[request.hotel_id].base_price_per_night
                nights == calculate_nights(request.booking.checkin,
                                           request.booking.checkout)
            IN  /\ \E variation \in Variations :
                       stored.total_price =
                           TotalOf(calculate_price_with_strategy(
                                       base_price, nights, strategy, variation))
                /\ strategy = "per-night" =>
                       /\ stored.total_price = base_price * nights
                       /\ nights > 1 => stored.total_price # base_price
                /\ strategy \notin {"per-night", "with-fees", "dynamic"} =>
                       stored.total_price = base_price * nights)
    /\ [][\A booking_id \in BookingIds, update_request \in BookingUpdateRequests :
            (/\ booking_id \in DOMAIN bookings_storage
             /\ update_booking(booking_id, update_request))
            => bookings_storage'[booking_id].total_price
                   = bookings_storage[booking_id].total_price]_vars

\* C18 witness: the flag backend failed, the booking of two nights was
\* priced per night and stores twice the base price; another booking
\* stores more than that (fees, or a dynamic surcharge).
C18_Witness ==
    /\ Booked
    /\ client # None
    /\ request.answers.variant.raises
    /\ bookings_storage[response.body.booking_id].total_price
           = 2 * HOTELS[request.hotel_id].base_price_per_night
    /\ \E b \in stored_bookings :
           b.total_price > 2 * HOTELS[b.hotel_id].base_price_per_night

====
